---- MODULE Spec2Model ----
(***************************************************************************)
(* A model of the machine translation evaluation recipe of fairseq2        *)
(* (recipes/mt/_eval.py): the construction of the evaluator by             *)
(* load_mt_evaluator on every process of the root gang, the BLEU/chrF      *)
(* evaluation unit, the metric bags of the units, the data reader's        *)
(* batching and end-of-data synchronization; and of setup_fairseq2 with    *)
(* run_extensions (setup/_root.py, extensions.py) and the Stopwatch        *)
(* (utils/profiler.py).                                                    *)
(***************************************************************************)
EXTENDS Integers, Sequences, FiniteSets, TLC

VARIABLES
    active,       \* the processes of the root gang under observation
    config,       \* the recipe configuration (config.seed)
    pc,           \* per process: "init", "failed" (SetupError), "ready" (evaluator created), "aborted"
    evaluator,    \* per process: the value returned by load_mt_evaluator, or NoEvaluator
    setup_error,  \* per process: the SetupError raised by load_mt_evaluator, or NoError
    rng_seed,     \* per process: the seed given to manual_seed, or -1
    directories,  \* file system: the directories created
    handles,      \* file system: the open handles, each [file, owner]
    os_error,     \* file system: per process, the path of the call that raised OSError, or NoFile
    streams,      \* file system: per output file, [file |-> flushed text, buf |-> unflushed text]
    delivered,    \* the (unit index, batch) pairs the shard's readers have produced so far
    pos,          \* per process: how many of the delivered pairs its evaluator has consumed
    raised,       \* per process: the error raised by its last unit invocation, or NoError
    generated,    \* per process: the number of batch_convert calls made by its score units
    reduced_over, \* per process: the members of the gang its last metric reduction ran over
    rd_options,   \* data reader: the read options it was created with
    rd_counts,    \* data reader: per gang member, the number of batches in its shard
    rd_state,     \* data reader: per member "idle", "waiting" (inside the collective) or "done"
    rd_taken,     \* data reader: per member, the batches read from its local shard
    rd_steps,     \* data reader: per member, the batches (real or no-op) yielded
    rd_noops,     \* data reader: per member, the no-op batches yielded
    mb_bag,       \* metric bags: per gang member, the metric bag of its unit
    mb_prev,      \* metric bags: the bags before the last operation on them
    mb_op,        \* metric bags: the last operation, [op, member, name]
    mb_updates,   \* metric bags: per member, the number of batches its unit has processed
    mb_snapshots, \* metric bags: the snapshots reduce returned since a bag last changed
    bt_input,     \* batching: the examples of the shard, each [id, len], in order
    bt_batching,  \* batching: the batching of the reader's read options
    bt_drop,      \* batching: the reader's drop policy (drop_remainder)
    bt_next,      \* batching: the index of the next example to read
    bt_current,   \* batching: the examples of the batch being filled
    bt_out,       \* batching: the batches emitted so far
    bt_done,      \* batching: the end of the data has been handled
    su_called,    \* setup: the module's _setup_called flag
    su_context,   \* setup: the process-wide context (0: none set)
    su_trace,     \* setup: FAIRSEQ2_EXTENSION_TRACE is in the environment
    su_behaviour, \* setup: per entry point of the group, what loading and calling it does
    su_pc,        \* setup: "idle", or "extensions" while the first call runs run_extensions
    su_next,      \* setup: the index of the entry point run_extensions is to process next
    su_runs,      \* setup: the number of executions of setup_runtime_context
    su_invoked,   \* setup: per entry point, the number of times it was loaded and called
    su_logged,    \* setup: the entry points whose failure was logged as a warning
    su_calls,     \* setup: the number of calls of setup_fairseq2 made so far
    su_results,   \* setup: the outcomes of the calls of setup_fairseq2 that have ended
    sw_pc,        \* stopwatch: "new" before the constructor has returned an object, then "live"
    sw_self,      \* stopwatch: the object, [start_time, device]
    sw_clock,     \* stopwatch: the last value perf_counter() returned
    sw_op,        \* stopwatch: the last operation called
    sw_prev,      \* stopwatch: the object before the last operation
    sw_raised,    \* stopwatch: the error the last operation raised, or "none"
    sw_value,     \* stopwatch: the time the last operation returned, or NoTime
    sw_started    \* stopwatch: a start or __enter__ has succeeded with no stop or __exit__ since

evalVars == <<active, config, pc, evaluator, setup_error, rng_seed, directories,
              handles, os_error, streams, delivered, pos, raised, generated, reduced_over>>

readerVars == <<rd_options, rd_counts, rd_state, rd_taken, rd_steps, rd_noops>>

metricVars == <<mb_bag, mb_prev, mb_op, mb_updates, mb_snapshots>>

\* The variables of the components other than the evaluator and the reader.
batchingVars == <<bt_input, bt_batching, bt_drop, bt_next, bt_current, bt_out, bt_done>>

setupVars == <<su_called, su_context, su_trace, su_behaviour, su_pc, su_next, su_runs,
               su_invoked, su_logged, su_calls, su_results>>

stopwatchVars == <<sw_pc, sw_self, sw_clock, sw_op, sw_prev, sw_raised, sw_value, sw_started>>

restVars == <<metricVars, batchingVars, setupVars, stopwatchVars>>

vars == <<evalVars, readerVars, restVars>>

(***************************************************************************)
(* Bounds.                                                                 *)
(***************************************************************************)
DpSize == 2

TpSize == 2

NumDirections == 2

MaxSeed == 1

MaxObserved == 2

MaxBatches == 2

MaxBatchSize == 2

MaxShardBatches == 5

MaxReduces == 2

MaxExamples == 4

MaxExampleLen == 3

MaxTokens == 4

NumEntryPoints == 2

MaxCalls == 3

MaxClock == 2

(***************************************************************************)
(* Gangs.                                                                  *)
(***************************************************************************)
RootSize == DpSize * TpSize

Procs == 0 .. (RootSize - 1)

DpRank(p) == p \div TpSize

TpRank(p) == p % TpSize

\* The {root, dp, tp} bundle of process p: root.size = dp.size * tp.size, the
\* dp gang joins the processes of equal tp rank, the tp gang those of equal
\* dp rank.
setup_gangs(p) ==
    [root |-> [name |-> "root", rank |-> p, size |-> RootSize, members |-> Procs],
     dp   |-> [name |-> "dp", rank |-> DpRank(p), size |-> DpSize,
               members |-> {q \in Procs : TpRank(q) = TpRank(p)}],
     tp   |-> [name |-> "tp", rank |-> TpRank(p), size |-> TpSize,
               members |-> {q \in Procs : DpRank(q) = DpRank(p)}]]

\* dataset.directions(split): an ordered sequence of distinct directions.
Directions == [k \in 1 .. NumDirections |-> k]

(***************************************************************************)
(* Values.                                                                 *)
(***************************************************************************)
NoFile == [direction |-> 0, rank |-> 0, kind |-> "none"]

NoSetupError == [raised |-> FALSE, path |-> NoFile]

NoError == [type |-> "none", field |-> "none"]

NoEvaluator == [created |-> FALSE, units |-> <<>>, data_readers |-> <<>>, seed |-> -1]

\* A unit's output stream argument: None, or a handle on an output file.
NoStream == [open |-> FALSE, file |-> NoFile]

Handle(file) == [open |-> TRUE, file |-> file]

\* A text: example j of a batch of n examples, as source, reference or hypothesis.
Text(kind, n, j) == [kind |-> kind, n |-> n, j |-> j]

NL == [kind |-> "\n", n |-> 0, j |-> 0]

EmptyStream == [file |-> <<>>, buf |-> <<>>]

Kinds == {"src", "ref", "hyp"}

\* Mutant: the file name leaves the rank out.
OutputFileNoRank(direction, rank, kind) ==
    [direction |-> direction, rank |-> 0, kind |-> kind]

\* output_dir.joinpath(f"translations/{direction}/rank_{rank}.{kind}.txt")
OutputFile(direction, rank, kind) ==
    [direction |-> direction, rank |-> rank, kind |-> kind]

\* src_file.parent: translations/{direction}
Parent(file) == [direction |-> file.direction, rank |-> 0, kind |-> "dir"]

AllFiles == {OutputFile(d, r, k) : d \in 1 .. NumDirections, r \in 0 .. (DpSize - 1), k \in Kinds}

(***************************************************************************)
(* Configuration defaults (MTEvalConfig).                                  *)
(***************************************************************************)
max_num_tokens == 4096

batch_size == 8

num_prefetch == 4

LengthBatching(n) == [type |-> "length", size |-> n]

StaticBatching(n) == [type |-> "static", size |-> n]

ParallelTextReadOptions(batching, direction, sync_mode, prefetch, seed) ==
    [batching |-> batching, direction |-> direction, sync_mode |-> sync_mode,
     num_prefetch |-> prefetch, seed |-> seed]

\* The read options of the loss unit's reader.
LossReadOptions(direction, seed) ==
    ParallelTextReadOptions(LengthBatching(max_num_tokens), direction,
                            "UNTIL_LAST", num_prefetch, seed)

\* Mutant: the score unit's reader stops with the first exhausted shard.
ScoreReadOptionsUntilFirst(direction, seed) ==
    ParallelTextReadOptions(StaticBatching(batch_size), direction,
                            "UNTIL_FIRST", num_prefetch, seed)

\* The read options of the score unit's reader.
ScoreReadOptions(direction, seed) ==
    ParallelTextReadOptions(StaticBatching(batch_size), direction,
                            "UNTIL_LAST", num_prefetch, seed)

\* dataset.create_reader(split, tokenizer, gangs.dp, min_len, max_len, options)
create_reader(gang, options) == [gang |-> gang, options |-> options]

(***************************************************************************)
(* Metric bags and units.                                                  *)
(***************************************************************************)
Metric(persistent) == [value |-> 0, persistent |-> persistent]

\* The error of a bag: none, or the one raised by a registration.
NoMetricError == [type |-> "none", name |-> ""]

DuplicateMetricError(name) == [type |-> "DuplicateMetricError", name |-> name]

\* The bag of the loss unit: the generic per-batch counters.
Seq2SeqMetricBag(gang) ==
    [gang |-> gang,
     metrics |-> ("num_batches" :> Metric(FALSE)) @@ ("num_elements" :> Metric(FALSE)),
     error |-> NoMetricError]

\* The bag of the score unit before its constructor registers bleu and chrf.
Seq2SeqGenerationMetricBag(gang) ==
    [gang |-> gang,
     metrics |-> ("num_batches" :> Metric(FALSE)) @@ ("num_elements" :> Metric(FALSE)),
     error |-> NoMetricError]

\* bag.register_metric(name, metric, persistent): a name the bag holds is an
\* error and the bag is left as it was; an error raised by an earlier
\* registration of the same constructor propagates, the later ones do not run.
register_metric(bag, name, persistent) ==
    IF bag.error # NoMetricError THEN bag
    ELSE IF name \in DOMAIN bag.metrics
    THEN [bag EXCEPT !.error = DuplicateMetricError(name)]
    ELSE [bag EXCEPT !.metrics = (name :> Metric(persistent)) @@ @]

\* The gang MTLossEvalUnit.__init__ hands to its metric bag.
LossBagGang(gangs) == gangs.dp

\* Mutant: the scoring metrics are registered as persistent.
ScoreMetricsPersistentTrue == TRUE

\* The persistent argument of the two register_metric calls of
\* MTBleuChrfEvalUnit.__init__.
ScoreMetricsPersistent == FALSE

\* Mutant: the second metric is registered under the first one's name.
ScoreMetricNamesBleuTwice == <<"bleu", "bleu">>

\* The names MTBleuChrfEvalUnit.__init__ registers its metrics under.
ScoreMetricNames == <<"bleu", "chrf">>

\* Mutant: the score unit's bag is reduced over the root gang.
ScoreBagGangRoot(gangs) == gangs.root

\* The gang MTBleuChrfEvalUnit.__init__ hands to its metric bag.
ScoreBagGang(gangs) == gangs.dp

MTLossEvalUnit(direction, gangs) ==
    [kind |-> "loss",
     display_name |-> <<"loss", direction>>,
     direction |-> direction,
     src_output_stream |-> NoStream,
     ref_output_stream |-> NoStream,
     hyp_output_stream |-> NoStream,
     metric_bag |-> Seq2SeqMetricBag(LossBagGang(gangs))]

MTBleuChrfEvalUnit(direction, gangs, src_fp, ref_fp, hyp_fp) ==
    [kind |-> "score",
     display_name |-> <<"score", direction>>,
     direction |-> direction,
     src_output_stream |-> src_fp,
     ref_output_stream |-> ref_fp,
     hyp_output_stream |-> hyp_fp,
     metric_bag |->
         register_metric(
             register_metric(Seq2SeqGenerationMetricBag(ScoreBagGang(gangs)),
                             ScoreMetricNames[1], ScoreMetricsPersistent),
             ScoreMetricNames[2], ScoreMetricsPersistent)]

(***************************************************************************)
(* load_mt_evaluator.                                                      *)
(***************************************************************************)
\* The file system call that raises OSError during one run of
\* load_mt_evaluator, if any: op "mkdir", "src", "ref" or "hyp" of a direction.
NoFailure == [direction |-> 0, op |-> "none"]

Failures ==
    {NoFailure} \cup
    {[direction |-> d, op |-> o] : d \in 1 .. NumDirections, o \in {"mkdir", "src", "ref", "hyp"}}

Fails(fail, direction, op) == fail.direction = direction /\ fail.op = op

\* Mutant: every rank takes the writer branch.
IsWriterAlways(gangs) == gangs.tp.rank >= 0

\* if gangs.tp.rank == 0
IsWriter(gangs) == gangs.tp.rank = 0

\* Mutant: the message of the SetupError leaves the path out.
SetupErrorNoPath(path) == [raised |-> TRUE, path |-> NoFile]

\* raise SetupError(f"The '{path}' ... cannot be created.") from ex
SetupError(path) == [raised |-> TRUE, path |-> path]

\* The writer branch of one loop iteration: make the directory, then open
\* the three files; the first OSError becomes a SetupError naming its path.
OpenOutputs(direction, rank, fail) ==
    LET src_file == OutputFile(direction, rank, "src")
        ref_file == OutputFile(direction, rank, "ref")
        hyp_file == OutputFile(direction, rank, "hyp")
        none == [error |-> NoSetupError, failed_call |-> NoFile, dirs |-> {}, opened |-> {},
                 src_fp |-> NoStream, ref_fp |-> NoStream, hyp_fp |-> NoStream]
    IN  IF Fails(fail, direction, "mkdir")
        THEN [none EXCEPT !.error = SetupError(Parent(src_file)),
                          !.failed_call = Parent(src_file)]
        ELSE IF Fails(fail, direction, "src")
        THEN [none EXCEPT !.error = SetupError(src_file), !.failed_call = src_file,
                          !.dirs = {Parent(src_file)}]
        ELSE IF Fails(fail, direction, "ref")
        THEN [none EXCEPT !.error = SetupError(ref_file), !.failed_call = ref_file,
                          !.dirs = {Parent(src_file)}, !.opened = {src_file}]
        ELSE IF Fails(fail, direction, "hyp")
        THEN [none EXCEPT !.error = SetupError(hyp_file), !.failed_call = hyp_file,
                          !.dirs = {Parent(src_file)}, !.opened = {src_file, ref_file}]
        ELSE [error |-> NoSetupError, failed_call |-> NoFile, dirs |-> {Parent(src_file)},
              opened |-> {src_file, ref_file, hyp_file},
              src_fp |-> Handle(src_file), ref_fp |-> Handle(ref_file),
              hyp_fp |-> Handle(hyp_file)]

\* The non-writer branch: the three streams are None.
NoOutputs ==
    [error |-> NoSetupError, failed_call |-> NoFile, dirs |-> {}, opened |-> {},
     src_fp |-> NoStream, ref_fp |-> NoStream, hyp_fp |-> NoStream]

\* Mutant: the score unit is appended before the loss unit.
AppendUnitsSwapped(units, loss_unit, score_unit) == Append(Append(units, score_unit), loss_unit)

\* units.append(loss_unit) ... units.append(score_unit)
AppendUnits(units, loss_unit, score_unit) == Append(Append(units, loss_unit), score_unit)

\* data_readers.append(data_reader), once after each unit
AppendReaders(data_readers, loss_reader, score_reader) ==
    Append(Append(data_readers, loss_reader), score_reader)

\* Mutant: the seed is handed on as it is.
NextSeedSame(seed) == seed

\* seed += 1
NextSeed(seed) == seed + 1

\* One iteration of the loop over the directions, from the locals st.
LoadDirection(p, direction, st, fail) ==
    LET gangs == setup_gangs(p)
        loss_unit == MTLossEvalUnit(direction, gangs)
        loss_reader == create_reader(gangs.dp, LossReadOptions(direction, st.seed))
        out == IF IsWriter(gangs)
               THEN OpenOutputs(direction, gangs.dp.rank, fail)
               ELSE NoOutputs
        score_unit == MTBleuChrfEvalUnit(direction, gangs, out.src_fp, out.ref_fp, out.hyp_fp)
        score_reader == create_reader(gangs.dp, ScoreReadOptions(direction, NextSeed(st.seed)))
    IN  IF out.failed_call # NoFile
        THEN [st EXCEPT !.units = Append(@, loss_unit),
                        !.data_readers = Append(@, loss_reader),
                        !.seed = NextSeed(@),
                        !.dirs = @ \cup out.dirs,
                        !.opened = @ \cup out.opened,
                        !.failed_call = out.failed_call,
                        !.error = out.error]
        ELSE [st EXCEPT !.units = AppendUnits(@, loss_unit, score_unit),
                        !.data_readers = AppendReaders(@, loss_reader, score_reader),
                        !.seed = NextSeed(NextSeed(@)),
                        !.dirs = @ \cup out.dirs,
                        !.opened = @ \cup out.opened]

RECURSIVE LoadLoop(_, _, _, _)
LoadLoop(p, k, st, fail) ==
    IF k > Len(Directions) \/ st.failed_call # NoFile
    THEN st
    ELSE CHOOSE r \in {LoadLoop(p, k + 1, next, fail) :
                           next \in {LoadDirection(p, Directions[k], st, fail)}} : TRUE

\* The locals of load_mt_evaluator when its loop ends or raises.
LoadLocals(p, seed, fail) ==
    LoadLoop(p, 1,
             [units |-> <<>>, data_readers |-> <<>>, seed |-> NextSeed(seed),
              dirs |-> {}, opened |-> {}, failed_call |-> NoFile, error |-> NoSetupError],
             fail)

create_evaluator(units, data_readers, seed) ==
    [created |-> TRUE, units |-> units, data_readers |-> data_readers, seed |-> seed]

\* The outcomes of the file system calls process p makes: none fails, or one
\* of them raises OSError. A process that is not a writer makes no call.
FileSystemCalls(p) == IF IsWriter(setup_gangs(p)) THEN Failures ELSE {NoFailure}

\* Process p runs load_mt_evaluator; the file system fails at `fail`, if at all.
LoadMtEvaluator(p) ==
    /\ pc[p] = "init"
    /\ \E fail \in FileSystemCalls(p) :
         \E st \in {LoadLocals(p, config.seed, fail)} :
             /\ rng_seed' = [rng_seed EXCEPT ![p] = config.seed]
             /\ directories' = directories \cup st.dirs
             /\ handles' = handles \cup {[file |-> f, owner |-> p] : f \in st.opened}
             /\ streams' = [f \in AllFiles |-> IF f \in st.opened THEN EmptyStream ELSE streams[f]]
             /\ os_error' = [os_error EXCEPT ![p] = st.failed_call]
             /\ setup_error' = [setup_error EXCEPT ![p] = st.error]
             /\ pc' = [pc EXCEPT ![p] = IF st.failed_call # NoFile THEN "failed" ELSE "ready"]
             /\ evaluator' = [evaluator EXCEPT ![p] =
                                 IF st.failed_call # NoFile
                                 THEN NoEvaluator
                                 ELSE create_evaluator(st.units, st.data_readers, st.seed)]
    /\ UNCHANGED <<active, config, delivered, pos, raised, generated, reduced_over>>
    /\ UNCHANGED <<readerVars, restVars>>

(***************************************************************************)
(* Batches.                                                                *)
(***************************************************************************)
\* A value of the batch's side-channel mapping: no such key, a value that is
\* not iterable, or a list of texts.
Absent == [type |-> "absent", items |-> <<>>]

NonIterable == [type |-> "int", items |-> <<>>]

TextList(kind, n) == [type |-> "list", items |-> [j \in 1 .. n |-> Text(kind, n, j)]]

FieldValues(kind, n) == {Absent, NonIterable, TextList(kind, n)}

\* batch.example: None, a value that is not a mapping, or a mapping.
Examples(n) ==
    {[type |-> "None", source_text |-> Absent, target_text |-> Absent],
     [type |-> "list", source_text |-> Absent, target_text |-> Absent]} \cup
    {[type |-> "dict", source_text |-> s, target_text |-> t] :
        s \in FieldValues("src", n), t \in FieldValues("ref", n)}

WellFormed(example) ==
    example.type = "dict" /\ example.source_text.type = "list"
                          /\ example.target_text.type = "list"

\* The batches a reader may hand to a score unit: n examples with their
\* source and target texts, or a batch with a malformed side-channel.
Batches ==
    UNION {{[n |-> n, example |-> e] : e \in {x \in Examples(n) : WellFormed(x)}} :
              n \in 1 .. MaxBatchSize}
    \cup {[n |-> 1, example |-> e] : e \in {x \in Examples(1) : ~WellFormed(x)}}

(***************************************************************************)
(* MTBleuChrfEvalUnit.__call__.                                            *)
(***************************************************************************)
ValueError(field) == [type |-> "ValueError", field |-> field]

\* Mutant: a wrong container type is reported as a ValueError too.
TypeErrorAsValueError(field) == [type |-> "ValueError", field |-> field]

TypeError(field) == [type |-> "TypeError", field |-> field]

\* isinstance(batch.example, Mapping)
IsMapping(example) == example.type = "dict"

\* isinstance(value, Iterable)
IsIterable(value) == value.type = "list"

\* Mutant: the error for a missing 'target_text' names 'source_text'.
ExampleErrorWrongField(example) ==
    IF example.type = "None" THEN ValueError("example")
    ELSE IF ~IsMapping(example) THEN TypeError("example")
    ELSE IF example.source_text.type = "absent" THEN ValueError("source_text")
    ELSE IF ~IsIterable(example.source_text) THEN TypeError("source_text")
    ELSE IF example.target_text.type = "absent" THEN ValueError("source_text")
    ELSE IF ~IsIterable(example.target_text) THEN TypeError("target_text")
    ELSE NoError

\* The checks of the side-channel, in the order the code makes them: the
\* error raised, or NoError.
ExampleError(example) ==
    IF example.type = "None" THEN ValueError("example")
    ELSE IF ~IsMapping(example) THEN TypeError("example")
    ELSE IF example.source_text.type = "absent" THEN ValueError("source_text")
    ELSE IF ~IsIterable(example.source_text) THEN TypeError("source_text")
    ELSE IF example.target_text.type = "absent" THEN ValueError("target_text")
    ELSE IF ~IsIterable(example.target_text) THEN TypeError("target_text")
    ELSE NoError

\* self._converter.batch_convert(...): one hypothesis per source sequence.
batch_convert(batch) == TextList("hyp", batch.n).items

Min(a, b) == IF a <= b THEN a ELSE b

\* bleu.update(refs, hyps), chrf.update(refs, hyps), update_batch_metrics(...)
UpdateMetrics(metrics, refs, hyps, num_source_elements) ==
    [metrics EXCEPT !["bleu"].value = @ + Min(Len(refs), Len(hyps)),
                    !["chrf"].value = @ + Min(Len(refs), Len(hyps)),
                    !["num_batches"].value = @ + 1,
                    !["num_elements"].value = @ + num_source_elements]

\* stream.write(text)
Write(stream, text) == [stream EXCEPT !.buf = Append(@, text)]

\* Mutant: the stream is not flushed.
FlushNothing(stream) == stream

\* stream.flush()
Flush(stream) == [file |-> stream.file \o stream.buf, buf |-> <<>>]

\* for text in texts: stream.write(text); stream.write("\n")
RECURSIVE WriteLines(_, _)
WriteLines(stream, texts) ==
    IF texts = <<>>
    THEN stream
    ELSE CHOOSE r \in {WriteLines(next, Tail(texts)) :
                          next \in {Write(Write(stream, Head(texts)), NL)}} : TRUE

\* if stream is not None: write the lines, then flush.
Dump(files, stream, texts) ==
    IF stream.open
    THEN [files EXCEPT ![stream.file] = Flush(WriteLines(@, texts))]
    ELSE files

\* The three dumps of one invocation, in the order source, reference, hypothesis.
DumpAll(files, unit, srcs, refs, hyps) ==
    Dump(Dump(Dump(files, unit.src_output_stream, srcs),
              unit.ref_output_stream, refs),
         unit.hyp_output_stream, hyps)

\* Mutant: 'target_text' is examined after the generator has run.
ScoreUnitCallLateCheck(p, i, batch) ==
    \E err \in {ExampleError(batch.example)} :
        /\ err # NoError
        /\ raised' = [raised EXCEPT ![p] = err]
        /\ pc' = [pc EXCEPT ![p] = "aborted"]
        /\ generated' = [generated EXCEPT ![p] = IF err.field = "target_text" THEN @ + 1 ELSE @]
        /\ UNCHANGED <<evaluator, streams>>

\* Unit i of process p, a score unit, is invoked on batch. An error raised by
\* the unit aborts the evaluator.
ScoreUnitCall(p, i, batch) ==
    \E unit \in {evaluator[p].units[i]}, err \in {ExampleError(batch.example)} :
        IF err # NoError
        THEN /\ raised' = [raised EXCEPT ![p] = err]
             /\ pc' = [pc EXCEPT ![p] = "aborted"]
             /\ UNCHANGED <<evaluator, streams, generated>>
        ELSE \E srcs \in {batch.example.source_text.items},
                refs \in {batch.example.target_text.items},
                hyps \in {batch_convert(batch)} :
             /\ generated' = [generated EXCEPT ![p] = @ + 1]
             /\ evaluator' = [evaluator EXCEPT ![p].units[i].metric_bag.metrics =
                                  UpdateMetrics(@, refs, hyps, batch.n)]
             /\ streams' = DumpAll(streams, unit, srcs, refs, hyps)
             /\ raised' = [raised EXCEPT ![p] = NoError]
             /\ UNCHANGED pc

ScoreUnitIndices(p) == {i \in 1 .. Len(evaluator[p].units) : evaluator[p].units[i].kind = "score"}

\* self._criterion(batch, self._metric_bag): the loss of the batch goes to the
\* bag's per-batch counters.
CriterionMetrics(metrics, batch) ==
    [metrics EXCEPT !["num_batches"].value = @ + 1,
                    !["num_elements"].value = @ + batch.n]

\* Unit i of process p, a loss unit, is invoked on batch.
LossUnitCall(p, i, batch) ==
    /\ evaluator' = [evaluator EXCEPT ![p].units[i].metric_bag.metrics =
                         CriterionMetrics(@, batch)]
    /\ raised' = [raised EXCEPT ![p] = NoError]
    /\ UNCHANGED <<pc, streams, generated>>

\* The batches the readers of unit i of process p may yield: the readers of
\* the parallel text dataset yield well-formed batches; a score unit may also
\* be wired to a reader whose batches lack what it requires.
BatchesFor(p, i) ==
    IF evaluator[p].units[i].kind = "score"
    THEN Batches
    ELSE {b \in Batches : WellFormed(b.example)}

\* The evaluator of process p takes the next batch of a unit's reader and
\* invokes the unit on it. The processes of one tensor-parallel gang read
\* the same shard, hence the same batches in the same order; units are
\* driven in their declared order. The gang computes each batch together, so
\* no process starts a batch before its peers are through the one before.
EvaluatorStep(p) ==
    /\ p \in active
    /\ pc[p] = "ready"
    /\ \A q \in active : pos[p] <= pos[q]
    /\ \E i \in 1 .. Len(evaluator[p].units) : \E batch \in BatchesFor(p, i) :
         /\ IF pos[p] < Len(delivered)
            THEN /\ delivered[pos[p] + 1] = [unit |-> i, batch |-> batch]
                 /\ UNCHANGED delivered
            ELSE /\ Len(delivered) < MaxBatches
                 /\ delivered # <<>> => delivered[Len(delivered)].unit <= i
                 /\ delivered' = Append(delivered, [unit |-> i, batch |-> batch])
         /\ pos' = [pos EXCEPT ![p] = @ + 1]
         /\ IF evaluator[p].units[i].kind = "score"
            THEN ScoreUnitCall(p, i, batch)
            ELSE LossUnitCall(p, i, batch)
    /\ UNCHANGED <<active, config, setup_error, rng_seed, directories, handles, os_error,
                   reduced_over>>
    /\ UNCHANGED <<readerVars, restVars>>

(***************************************************************************)
(* The evaluator's metric reduction.                                       *)
(***************************************************************************)
UnitIndices(p) == 1 .. Len(evaluator[p].units)

\* The processes the bag of unit i of process p is reduced over: the members
\* of the gang the bag was constructed with.
BagMembers(p, i) == evaluator[p].units[i].metric_bag.gang.members

\* The processes whose arrival the reductions of process p wait for.
ReductionPeers(p) == UNION {BagMembers(p, i) : i \in UnitIndices(p)}

\* The collective reductions of every unit's metric bag complete for process
\* p: each ran over the gang of the unit's bag. The observed peers have built
\* their evaluator, or the collectives would not complete.
SyncAndComputeMetrics(p) ==
    /\ p \in active
    /\ pc[p] = "ready"
    /\ reduced_over[p] = <<>>
    /\ \A q \in ReductionPeers(p) \cap active : pc[q] = "ready"
    /\ reduced_over' = [reduced_over EXCEPT ![p] = [i \in UnitIndices(p) |-> BagMembers(p, i)]]
    /\ UNCHANGED <<active, config, pc, evaluator, setup_error, rng_seed, directories,
                   handles, os_error, streams, delivered, pos, raised, generated>>
    /\ UNCHANGED <<readerVars, restVars>>

(***************************************************************************)
(* The data reader of one dataset split, stepped by the members of the     *)
(* data-parallel gang, each over its own shard.                            *)
(***************************************************************************)
Members == 0 .. (DpSize - 1)

\* The read options of the readers load_mt_evaluator creates.
MTReaderOptions ==
    {r.options : r \in {x \in {LoadLocals(0, 0, NoFailure).data_readers[i] :
                                  i \in 1 .. 2 * NumDirections} : TRUE}}

\* The read options of a reader created with the other sync mode.
UntilFirstOptions == [LossReadOptions(1, 0) EXCEPT !.sync_mode = "UNTIL_FIRST"]

\* Member m has a batch left in its shard.
HasBatch(m) == rd_taken[m] < rd_counts[m]

\* Mutant: under UNTIL_FIRST each member stops when its own shard is exhausted.
SyncOutcomeLocal(sync_mode, has_batch, all_have, any_has) ==
    IF sync_mode = "UNTIL_FIRST"
    THEN IF has_batch THEN "batch" ELSE "stop"
    ELSE IF ~any_has THEN "stop" ELSE IF has_batch THEN "batch" ELSE "noop"

\* What a member's call yields once the members have compared their shards:
\* UNTIL_FIRST stops for all as soon as a shard is exhausted; UNTIL_LAST goes
\* on until every shard is exhausted, a member that has finished yielding a
\* no-op batch.
SyncOutcome(sync_mode, has_batch, all_have, any_has) ==
    IF sync_mode = "UNTIL_FIRST"
    THEN IF all_have THEN "batch" ELSE "stop"
    ELSE IF ~any_has THEN "stop" ELSE IF has_batch THEN "batch" ELSE "noop"

\* Member m asks its reader for the next batch and waits for the gang.
ReaderNext(m) ==
    /\ rd_state[m] = "idle"
    /\ rd_state' = [rd_state EXCEPT ![m] = "waiting"]
    /\ UNCHANGED <<rd_options, rd_counts, rd_taken, rd_steps, rd_noops>>
    /\ UNCHANGED <<evalVars, restVars>>

\* Every member that has not stopped is waiting: the collective completes and
\* each call returns a batch, a no-op batch, or the end of the data.
ReaderSync ==
    LET waiting == {m \in Members : rd_state[m] = "waiting"}
        all_have == \A m \in waiting : HasBatch(m)
        any_has == \E m \in waiting : HasBatch(m)
        outcome == [m \in waiting |->
                       SyncOutcome(rd_options.sync_mode, HasBatch(m), all_have, any_has)]
    IN  /\ waiting # {}
        /\ \A m \in Members : rd_state[m] \in {"waiting", "done"}
        /\ rd_state' = [m \in Members |->
                           IF m \notin waiting THEN rd_state[m]
                           ELSE IF outcome[m] = "stop" THEN "done" ELSE "idle"]
        /\ rd_taken' = [m \in Members |->
                           IF m \in waiting /\ outcome[m] = "batch"
                           THEN rd_taken[m] + 1 ELSE rd_taken[m]]
        /\ rd_steps' = [m \in Members |->
                           IF m \in waiting /\ outcome[m] # "stop"
                           THEN rd_steps[m] + 1 ELSE rd_steps[m]]
        /\ rd_noops' = [m \in Members |->
                           IF m \in waiting /\ outcome[m] = "noop"
                           THEN rd_noops[m] + 1 ELSE rd_noops[m]]
        /\ UNCHANGED <<rd_options, rd_counts>>
        /\ UNCHANGED <<evalVars, restVars>>

(***************************************************************************)
(* The metric bags of the units of one data-parallel gang: every member    *)
(* constructs its unit, the unit updates its bag batch by batch, and the   *)
(* evaluator clears and reduces the bags.                                  *)
(***************************************************************************)
MetricGang == setup_gangs(0).dp.members

\* The bag the constructor of a unit of process p creates.
UnitBag(kind, p) ==
    IF kind = "loss"
    THEN MTLossEvalUnit(Directions[1], setup_gangs(p)).metric_bag
    ELSE MTBleuChrfEvalUnit(Directions[1], setup_gangs(p), NoStream, NoStream, NoStream).metric_bag

\* The names a constructor may register a further metric under.
MetricNames == {"bleu", "chrf", "loss"}

NoOp == [op |-> "none", member |-> -1, name |-> ""]

\* The bag holds the metrics MTBleuChrfEvalUnit.__call__ updates.
IsScoreBag(bag) == {"bleu", "chrf"} \subseteq DOMAIN bag.metrics

\* The constructors register one more metric; they run the same code on
\* every member, before the first batch.
RegisterMetric(name, persistent) ==
    /\ mb_op = NoOp
    /\ mb_prev' = mb_bag
    /\ mb_bag' = [m \in MetricGang |-> register_metric(mb_bag[m], name, persistent)]
    /\ mb_op' = [op |-> "register", member |-> -1, name |-> name]
    /\ mb_snapshots' = <<>>
    /\ UNCHANGED mb_updates
    /\ UNCHANGED <<evalVars, readerVars, batchingVars, setupVars, stopwatchVars>>

\* The members of the gang are at the same step of the evaluation.
SameStep == \A m, q \in MetricGang : mb_updates[m] = mb_updates[q]

\* The unit of member m processes a batch of n examples and updates its bag;
\* the readers keep the members of the gang in step.
UpdateBag(m, n) ==
    /\ mb_updates[m] < MaxBatches
    /\ \A q \in MetricGang : mb_updates[m] <= mb_updates[q]
    /\ mb_bag[m].error = NoMetricError
    /\ mb_prev' = mb_bag
    /\ mb_bag' = [mb_bag EXCEPT ![m].metrics =
                      IF IsScoreBag(mb_bag[m])
                      THEN UpdateMetrics(@, TextList("ref", n).items,
                                         batch_convert([n |-> n]), n)
                      ELSE CriterionMetrics(@, [n |-> n])]
    /\ mb_op' = [op |-> "update", member |-> m, name |-> ""]
    /\ mb_updates' = [mb_updates EXCEPT ![m] = @ + 1]
    /\ mb_snapshots' = <<>>
    /\ UNCHANGED <<evalVars, readerVars, batchingVars, setupVars, stopwatchVars>>

\* The metrics of a bag after the evaluator has cleared it at a checkpoint:
\* the metrics that are not persistent are back at their initial value.
reset_non_persistent_metrics(metrics) ==
    [name \in DOMAIN metrics |->
        IF metrics[name].persistent THEN metrics[name]
        ELSE [metrics[name] EXCEPT !.value = 0]]

\* The evaluators reach a checkpoint: each clears the bag of its unit.
ClearBags ==
    /\ SameStep
    /\ \A m \in MetricGang : mb_bag[m].error = NoMetricError
    /\ mb_prev' = mb_bag
    /\ mb_bag' = [m \in MetricGang |->
                      [mb_bag[m] EXCEPT !.metrics = reset_non_persistent_metrics(@)]]
    /\ mb_op' = [op |-> "clear", member |-> -1, name |-> ""]
    /\ mb_snapshots' = <<>>
    /\ UNCHANGED mb_updates
    /\ UNCHANGED <<evalVars, readerVars, batchingVars, setupVars, stopwatchVars>>

\* The sum of a metric over the bags of a set of members.
RECURSIVE SumOver(_, _, _)
SumOver(bags, name, S) ==
    IF S = {} THEN 0
    ELSE LET m == CHOOSE x \in S : TRUE
         IN  bags[m].metrics[name].value + SumOver(bags, name, S \ {m})

\* The snapshot a reduction returns: per metric, the sum over the gang.
ReducedSnapshot(bags) ==
    [name \in DOMAIN bags[CHOOSE m \in MetricGang : TRUE].metrics |->
        SumOver(bags, name, MetricGang)]

\* Mutant: the reduction stores the reduced values in the local bag.
AfterReduceMerged(bag, snapshot) ==
    [bag EXCEPT !.metrics = [name \in DOMAIN @ |-> [@[name] EXCEPT !.value = snapshot[name]]]]

\* The local bag after a reduction has returned snapshot.
AfterReduce(bag, snapshot) == bag

\* bag.reduce(gang) on every member: one collective per metric; every member
\* is returned the same snapshot.
ReduceBags ==
    /\ Len(mb_snapshots) < MaxReduces
    /\ SameStep
    /\ \A m \in MetricGang : mb_bag[m].error = NoMetricError
    /\ \E snapshot \in {ReducedSnapshot(mb_bag)} :
         /\ mb_snapshots' = Append(mb_snapshots, snapshot)
         /\ mb_bag' = [m \in MetricGang |-> AfterReduce(mb_bag[m], snapshot)]
    /\ mb_prev' = mb_bag
    /\ mb_op' = [op |-> "reduce", member |-> -1, name |-> ""]
    /\ UNCHANGED mb_updates
    /\ UNCHANGED <<evalVars, readerVars, batchingVars, setupVars, stopwatchVars>>

(***************************************************************************)
(* Batching: a reader groups the examples of its shard into batches, by    *)
(* count (StaticBatching) or by padded token count (LengthBatching).       *)
(***************************************************************************)
Max(a, b) == IF a >= b THEN a ELSE b

\* The length of the longest example of a batch.
RECURSIVE MaxLength(_)
MaxLength(batch) ==
    IF batch = <<>> THEN 0
    ELSE Max(batch[Len(batch)].len, MaxLength(SubSeq(batch, 1, Len(batch) - 1)))

\* The padded token count of a batch: batch size x longest example.
PaddedTokens(batch) == Len(batch) * MaxLength(batch)

\* Mutant: the budget is checked against the batch before the example joins.
FitsBudgetBefore(batch, example, max_tokens) ==
    batch # <<>> /\ PaddedTokens(batch) <= max_tokens

\* LengthBatching: the example can join the batch within the token budget.
FitsBudget(batch, example, max_tokens) ==
    batch # <<>> /\ PaddedTokens(Append(batch, example)) <= max_tokens

\* Mutant: the example that closes a batch is not carried to the next one.
StartNextBatchEmpty(example) == <<>>

\* The batch that starts when an example has closed the one before.
StartNextBatch(example) == <<example>>

\* The reader reads the next example of the shard.
TakeExample ==
    /\ ~bt_done
    /\ bt_next <= Len(bt_input)
    /\ LET example == bt_input[bt_next]
       IN  IF bt_batching.type = "length"
           THEN IF bt_current = <<>>
                THEN bt_current' = <<example>> /\ UNCHANGED bt_out
                ELSE IF FitsBudget(bt_current, example, bt_batching.size)
                THEN bt_current' = Append(bt_current, example) /\ UNCHANGED bt_out
                ELSE /\ bt_out' = Append(bt_out, bt_current)
                     /\ bt_current' = StartNextBatch(example)
           ELSE IF Len(bt_current) + 1 = bt_batching.size
                THEN /\ bt_out' = Append(bt_out, Append(bt_current, example))
                     /\ bt_current' = <<>>
                ELSE bt_current' = Append(bt_current, example) /\ UNCHANGED bt_out
    /\ bt_next' = bt_next + 1
    /\ UNCHANGED <<bt_input, bt_batching, bt_drop, bt_done>>
    /\ UNCHANGED <<evalVars, readerVars, metricVars, setupVars, stopwatchVars>>

\* The reader drops the batch left at the end of the data: a short window of
\* StaticBatching under the drop policy.
DropsRemainder(batching, drop, batch) ==
    batching.type = "static" /\ drop /\ Len(batch) < batching.size

\* The shard is exhausted: the batch being filled is emitted, or dropped.
EndOfData ==
    /\ ~bt_done
    /\ bt_next > Len(bt_input)
    /\ bt_out' = IF bt_current = <<>> \/ DropsRemainder(bt_batching, bt_drop, bt_current)
                 THEN bt_out
                 ELSE Append(bt_out, bt_current)
    /\ bt_current' = <<>>
    /\ bt_done' = TRUE
    /\ UNCHANGED <<bt_input, bt_batching, bt_drop, bt_next>>
    /\ UNCHANGED <<evalVars, readerVars, metricVars, setupVars, stopwatchVars>>

(***************************************************************************)
(* setup_fairseq2, setup_runtime_context and run_extensions in one process *)
(* (setup/_root.py, extensions.py).                                        *)
(***************************************************************************)
EntryPoints == 1 .. NumEntryPoints

\* What loading and calling an entry point does: it runs; it is no valid
\* extension function (TypeError); it raises another exception; it calls
\* setup_fairseq2 itself.
Behaviours == {"ok", "type_error", "exception", "reenters"}

\* The outcome of a call of setup_fairseq2.
Result(call, outcome, context, entry_point) ==
    [call |-> call, outcome |-> outcome, context |-> context, entry_point |-> entry_point]

\* get_runtime_context(): the process-wide context; with none set, the call
\* raises or returns no context.
get_runtime_context(context) ==
    IF context # 0 THEN {"context"} ELSE {"RuntimeError", "None"}

\* setup_fairseq2() is called from outside setup_runtime_context.
SetupFairseq2 ==
    /\ su_pc = "idle"
    /\ su_calls < MaxCalls
    /\ su_calls' = su_calls + 1
    /\ IF su_called
       THEN /\ \E outcome \in get_runtime_context(su_context) :
                 su_results' = Append(su_results, Result(su_calls + 1, outcome, su_context, 0))
            /\ UNCHANGED <<su_called, su_pc, su_next, su_runs>>
       ELSE /\ su_called' = TRUE
            /\ su_runs' = su_runs + 1
            /\ su_pc' = "extensions"
            /\ su_next' = 1
            /\ UNCHANGED su_results
    /\ UNCHANGED <<su_context, su_trace, su_behaviour, su_invoked, su_logged>>
    /\ UNCHANGED <<evalVars, readerVars, metricVars, batchingVars, stopwatchVars>>

\* ExtensionError(entry_point.value, ...) leaves run_extensions,
\* setup_runtime_context and the running call of setup_fairseq2.
RaiseExtensionError(entry_point, results) ==
    /\ su_results' = Append(results, Result(1, "ExtensionError", 0, entry_point))
    /\ su_pc' = "idle"
    /\ UNCHANGED <<su_next, su_logged>>

\* Mutant: the loop ends with the entry point whose failure is logged.
LogWarningAndStop(entry_point, results) ==
    /\ su_results' = results
    /\ su_logged' = su_logged \cup {entry_point}
    /\ su_next' = NumEntryPoints + 1
    /\ UNCHANGED su_pc

\* log.warning(...): the failure is logged and the loop goes on.
LogWarning(entry_point, results) ==
    /\ su_results' = results
    /\ su_logged' = su_logged \cup {entry_point}
    /\ su_next' = su_next + 1
    /\ UNCHANGED su_pc

\* One iteration of the loop of run_extensions: the entry point is loaded
\* and called with the context under construction.
RunExtension ==
    /\ su_pc = "extensions"
    /\ su_next <= NumEntryPoints
    /\ su_invoked' = [su_invoked EXCEPT ![su_next] = @ + 1]
    /\ \/ /\ su_behaviour[su_next] = "ok"
          /\ su_next' = su_next + 1
          /\ UNCHANGED <<su_pc, su_logged, su_results, su_calls>>
       \/ /\ su_behaviour[su_next] \in {"type_error", "exception"}
          /\ IF su_trace
             THEN RaiseExtensionError(su_next, su_results)
             ELSE LogWarning(su_next, su_results)
          /\ UNCHANGED su_calls
       \/ /\ su_behaviour[su_next] = "reenters"
          /\ su_calls' = su_calls + 1
          /\ \E outcome \in get_runtime_context(su_context) :
                LET results == Append(su_results,
                                      Result(su_calls + 1, outcome, su_context, su_next))
                IN  IF outcome = "RuntimeError"
                    THEN IF su_trace
                         THEN RaiseExtensionError(su_next, results)
                         ELSE LogWarning(su_next, results)
                    ELSE /\ su_results' = results
                         /\ su_next' = su_next + 1
                         /\ UNCHANGED <<su_pc, su_logged>>
    /\ UNCHANGED <<su_called, su_context, su_trace, su_behaviour, su_runs>>
    /\ UNCHANGED <<evalVars, readerVars, metricVars, batchingVars, stopwatchVars>>

\* run_extensions and setup_runtime_context return; setup_fairseq2 stores
\* the context with set_runtime_context and returns it.
FinishSetup ==
    /\ su_pc = "extensions"
    /\ su_next > NumEntryPoints
    /\ su_context' = su_runs
    /\ su_results' = Append(su_results, Result(1, "context", su_runs, 0))
    /\ su_pc' = "idle"
    /\ UNCHANGED <<su_called, su_trace, su_behaviour, su_next, su_runs, su_invoked,
                   su_logged, su_calls>>
    /\ UNCHANGED <<evalVars, readerVars, metricVars, batchingVars, stopwatchVars>>

(***************************************************************************)
(* Stopwatch (utils/profiler.py).                                          *)
(***************************************************************************)
\* self._start_time = None
NoTime == -1

\* The device argument: None, or a device of some type.
Devices == {"None", "cpu", "cuda", "meta"}

\* What a method leaves: the object, the error raised and the value returned.
Outcome(self, error, value) == [self |-> self, raised |-> error, value |-> value]

\* Mutant: start() on a running stopwatch starts it again.
start_again(self, now) == Outcome([self EXCEPT !.start_time = now], "none", NoTime)

\* Stopwatch.start(); now is the value of perf_counter().
start(self, now) ==
    IF self.start_time # NoTime
    THEN Outcome(self, "InvalidOperationError", NoTime)
    ELSE Outcome([self EXCEPT !.start_time = now], "none", NoTime)

\* Stopwatch.stop()
stop(self) == Outcome([self EXCEPT !.start_time = NoTime], "none", NoTime)

\* Stopwatch.reset()
reset(self, now) ==
    IF self.start_time = NoTime
    THEN Outcome(self, "InvalidOperationError", NoTime)
    ELSE Outcome([self EXCEPT !.start_time = now], "none", NoTime)

\* Stopwatch.get_elapsed_time()
get_elapsed_time(self, now) ==
    IF self.start_time = NoTime
    THEN Outcome(self, "none", 0)
    ELSE Outcome(self, "none", now - self.start_time)

\* Mutant: __enter__ starts the stopwatch whatever its state.
enter_always_starts(self, now) == start(self, now)

\* Stopwatch.__enter__()
enter(self, now) ==
    IF self.start_time = NoTime THEN start(self, now) ELSE Outcome(self, "none", NoTime)

\* Stopwatch.__exit__(*exc)
exit(self) == stop(self)

\* Stopwatch.is_running
is_running(self) == self.start_time # NoTime

\* Stopwatch.__init__(start=..., device=...)
init(start_now, device, now) ==
    IF device \notin {"None", "cpu", "cuda"}
    THEN Outcome([start_time |-> NoTime, device |-> "None"], "ValueError", NoTime)
    ELSE IF start_now
    THEN start([start_time |-> NoTime, device |-> device], now)
    ELSE Outcome([start_time |-> NoTime, device |-> device], "none", NoTime)

\* The values perf_counter() may return next: the clock does not go back.
Now == {t \in {sw_clock, sw_clock + 1} : t <= MaxClock}

\* A call of a method has left outcome out.
Called(op, out, now, started) ==
    /\ sw_op' = op
    /\ sw_prev' = sw_self
    /\ sw_self' = out.self
    /\ sw_raised' = out.raised
    /\ sw_value' = out.value
    /\ sw_clock' = now
    /\ sw_started' = started
    /\ UNCHANGED <<evalVars, readerVars, metricVars, batchingVars, setupVars>>

\* Stopwatch(start=start_now, device=device): an error leaves no object.
StopwatchInit(start_now, device) ==
    /\ sw_pc = "new"
    /\ \E now \in Now : \E out \in {init(start_now, device, now)} :
         /\ sw_pc' = IF out.raised = "none" THEN "live" ELSE "new"
         /\ Called("__init__", out, now, out.raised = "none" /\ start_now)

StopwatchStart ==
    /\ sw_pc = "live"
    /\ \E now \in Now : \E out \in {start(sw_self, now)} :
         Called("start", out, now, IF out.raised = "none" THEN TRUE ELSE sw_started)
    /\ UNCHANGED sw_pc

StopwatchStop ==
    /\ sw_pc = "live"
    /\ Called("stop", stop(sw_self), sw_clock, FALSE)
    /\ UNCHANGED sw_pc

StopwatchReset ==
    /\ sw_pc = "live"
    /\ \E now \in Now : Called("reset", reset(sw_self, now), now, sw_started)
    /\ UNCHANGED sw_pc

StopwatchGetElapsedTime ==
    /\ sw_pc = "live"
    /\ \E now \in Now : Called("get_elapsed_time", get_elapsed_time(sw_self, now), now, sw_started)
    /\ UNCHANGED sw_pc

StopwatchEnter ==
    /\ sw_pc = "live"
    /\ \E now \in Now : \E out \in {enter(sw_self, now)} :
         Called("__enter__", out, now, IF out.raised = "none" THEN TRUE ELSE sw_started)
    /\ UNCHANGED sw_pc

StopwatchExit ==
    /\ sw_pc = "live"
    /\ Called("__exit__", exit(sw_self), sw_clock, FALSE)
    /\ UNCHANGED sw_pc

(***************************************************************************)
(* Initial states.                                                         *)
(***************************************************************************)
EvalInit ==
    /\ pc = [p \in Procs |-> "init"]
    /\ evaluator = [p \in Procs |-> NoEvaluator]
    /\ setup_error = [p \in Procs |-> NoSetupError]
    /\ rng_seed = [p \in Procs |-> -1]
    /\ directories = {}
    /\ handles = {}
    /\ os_error = [p \in Procs |-> NoFile]
    /\ streams = [f \in AllFiles |-> EmptyStream]
    /\ delivered = <<>>
    /\ pos = [p \in Procs |-> 0]
    /\ raised = [p \in Procs |-> NoError]
    /\ generated = [p \in Procs |-> 0]
    /\ reduced_over = [p \in Procs |-> <<>>]

\* No data reader is stepped.
ReaderUnused ==
    /\ rd_options = LossReadOptions(1, 0)
    /\ rd_counts = [m \in Members |-> 0]
    /\ rd_state = [m \in Members |-> "done"]
    /\ rd_taken = [m \in Members |-> 0]
    /\ rd_steps = [m \in Members |-> 0]
    /\ rd_noops = [m \in Members |-> 0]

\* No metric bag is observed on its own.
MetricsUnused ==
    /\ mb_bag = <<>>
    /\ mb_prev = <<>>
    /\ mb_op = NoOp
    /\ mb_updates = <<>>
    /\ mb_snapshots = <<>>

\* No shard is batched on its own.
BatchingUnused ==
    /\ bt_input = <<>>
    /\ bt_batching = StaticBatching(batch_size)
    /\ bt_drop = FALSE
    /\ bt_next = 1
    /\ bt_current = <<>>
    /\ bt_out = <<>>
    /\ bt_done = TRUE

\* setup_fairseq2 is not observed.
SetupUnused ==
    /\ su_called = TRUE
    /\ su_context = 1
    /\ su_trace = FALSE
    /\ su_behaviour = <<>>
    /\ su_pc = "idle"
    /\ su_next = 1
    /\ su_runs = 1
    /\ su_invoked = <<>>
    /\ su_logged = {}
    /\ su_calls = MaxCalls
    /\ su_results = <<>>

\* No stopwatch is observed.
StopwatchUnused ==
    /\ sw_pc = "unused"
    /\ sw_self = [start_time |-> NoTime, device |-> "None"]
    /\ sw_clock = 0
    /\ sw_op = "none"
    /\ sw_prev = sw_self
    /\ sw_raised = "none"
    /\ sw_value = NoTime
    /\ sw_started = FALSE

RestUnused == MetricsUnused /\ BatchingUnused /\ SetupUnused /\ StopwatchUnused

\* No process runs load_mt_evaluator.
EvalUnused ==
    /\ active = {}
    /\ config = [seed |-> 0]
    /\ EvalInit

(***************************************************************************)
(* SpecLoad: the processes of the root gang run load_mt_evaluator and      *)
(* reduce the metric bags of their units. The processes do not interact    *)
(* while they build their evaluators, so a run is observed through any     *)
(* group of at most MaxObserved of them.                                   *)
(***************************************************************************)
InitLoad ==
    /\ active \in {S \in SUBSET Procs : 1 <= Cardinality(S) /\ Cardinality(S) <= MaxObserved}
    /\ config \in [seed : 0 .. MaxSeed]
    /\ EvalInit
    /\ ReaderUnused
    /\ RestUnused

NextLoad ==
    \/ \E p \in Procs : p \in active /\ LoadMtEvaluator(p)
    \/ \E p \in Procs : SyncAndComputeMetrics(p)

SpecLoad == InitLoad /\ [][NextLoad]_vars

(***************************************************************************)
(* SpecUnit: the processes of one tensor-parallel gang (one data-parallel  *)
(* rank, hence one shard) run load_mt_evaluator, and their evaluators      *)
(* invoke the score units on the batches of the shard.                     *)
(***************************************************************************)
InitUnit ==
    /\ active \in {setup_gangs(p).tp.members : p \in Procs}
    /\ config = [seed |-> 0]
    /\ EvalInit
    /\ ReaderUnused
    /\ RestUnused

NextUnit ==
    \/ \E p \in Procs : p \in active /\ LoadMtEvaluator(p)
    \/ \E p \in Procs : EvaluatorStep(p)

SpecUnit == InitUnit /\ [][NextUnit]_vars

(***************************************************************************)
(* SpecReader: the members of a data-parallel gang step one data reader,   *)
(* one created by load_mt_evaluator or one created with UNTIL_FIRST, over  *)
(* shards of any batch counts.                                             *)
(***************************************************************************)
InitReader ==
    /\ active = {}
    /\ config = [seed |-> 0]
    /\ EvalInit
    /\ rd_options \in MTReaderOptions \cup {UntilFirstOptions}
    /\ rd_counts \in [Members -> 0 .. MaxShardBatches]
    /\ rd_state = [m \in Members |-> "idle"]
    /\ rd_taken = [m \in Members |-> 0]
    /\ rd_steps = [m \in Members |-> 0]
    /\ rd_noops = [m \in Members |-> 0]
    /\ RestUnused

NextReader ==
    \/ \E m \in Members : ReaderNext(m)
    \/ ReaderSync

SpecReader == InitReader /\ [][NextReader]_vars

(***************************************************************************)
(* SpecMetrics: the members of a data-parallel gang construct the units of *)
(* one direction, all loss units or all score units, and their bags are    *)
(* updated, cleared and reduced.                                           *)
(***************************************************************************)
InitMetrics ==
    /\ EvalUnused
    /\ ReaderUnused
    /\ \E kind \in {"loss", "score"} : mb_bag = [m \in MetricGang |-> UnitBag(kind, m)]
    /\ mb_prev = mb_bag
    /\ mb_op = NoOp
    /\ mb_updates = [m \in MetricGang |-> 0]
    /\ mb_snapshots = <<>>
    /\ BatchingUnused
    /\ SetupUnused
    /\ StopwatchUnused

NextMetrics ==
    \/ \E name \in MetricNames, persistent \in BOOLEAN : RegisterMetric(name, persistent)
    \/ \E m \in MetricGang, n \in 1 .. MaxBatchSize : UpdateBag(m, n)
    \/ ClearBags
    \/ ReduceBags

SpecMetrics == InitMetrics /\ [][NextMetrics]_vars

(***************************************************************************)
(* SpecBatching: a reader batches a shard of any examples under any        *)
(* LengthBatching or StaticBatching.                                       *)
(***************************************************************************)
\* The shards: up to MaxExamples examples of 1 to MaxExampleLen tokens.
Shards ==
    UNION {{[i \in 1 .. k |-> [id |-> i, len |-> lens[i]]] :
               lens \in [1 .. k -> 1 .. MaxExampleLen]} : k \in 0 .. MaxExamples}

InitBatching ==
    /\ EvalUnused
    /\ ReaderUnused
    /\ MetricsUnused
    /\ bt_input \in Shards
    /\ bt_batching \in {LengthBatching(t) : t \in 1 .. MaxTokens}
                         \cup {StaticBatching(n) : n \in 1 .. MaxBatchSize}
    /\ bt_drop \in BOOLEAN
    /\ bt_next = 1
    /\ bt_current = <<>>
    /\ bt_out = <<>>
    /\ bt_done = FALSE
    /\ SetupUnused
    /\ StopwatchUnused

NextBatching ==
    \/ TakeExample
    \/ EndOfData

SpecBatching == InitBatching /\ [][NextBatching]_vars

(***************************************************************************)
(* SpecSetup: a process calls setup_fairseq2 a number of times, with any   *)
(* extensions installed and the trace variable set or not.                 *)
(***************************************************************************)
InitSetup ==
    /\ EvalUnused
    /\ ReaderUnused
    /\ MetricsUnused
    /\ BatchingUnused
    /\ su_called = FALSE
    /\ su_context = 0
    /\ su_trace \in BOOLEAN
    /\ su_behaviour \in [EntryPoints -> Behaviours]
    /\ su_pc = "idle"
    /\ su_next = 1
    /\ su_runs = 0
    /\ su_invoked = [k \in EntryPoints |-> 0]
    /\ su_logged = {}
    /\ su_calls = 0
    /\ su_results = <<>>
    /\ StopwatchUnused

NextSetup ==
    \/ SetupFairseq2
    \/ RunExtension
    \/ FinishSetup

SpecSetup == InitSetup /\ [][NextSetup]_vars

(***************************************************************************)
(* SpecStopwatch: a stopwatch is constructed and its methods are called in *)
(* any order while the clock advances.                                     *)
(***************************************************************************)
InitStopwatch ==
    /\ EvalUnused
    /\ ReaderUnused
    /\ MetricsUnused
    /\ BatchingUnused
    /\ SetupUnused
    /\ sw_pc = "new"
    /\ sw_self = [start_time |-> NoTime, device |-> "None"]
    /\ sw_clock = 0
    /\ sw_op = "none"
    /\ sw_prev = sw_self
    /\ sw_raised = "none"
    /\ sw_value = NoTime
    /\ sw_started = FALSE

NextStopwatch ==
    \/ \E start_now \in BOOLEAN, device \in Devices : StopwatchInit(start_now, device)
    \/ StopwatchStart
    \/ StopwatchStop
    \/ StopwatchReset
    \/ StopwatchGetElapsedTime
    \/ StopwatchEnter
    \/ StopwatchExit

SpecStopwatch == InitStopwatch /\ [][NextStopwatch]_vars

(***************************************************************************)
(* Properties.                                                             *)
(***************************************************************************)
\* Process p has built its evaluator.
Built(p) == pc[p] \in {"ready", "aborted"}

\* The batch of the last invocation made by process p.
LastBatch(p) == delivered[pos[p]].batch

\* The invocation k of a run is a completed one: the unit accepted the batch.
Completed(k) == WellFormed(delivered[k].batch.example)

\* The invocation k of a run is, on process p, one of a score unit.
OnScoreUnit(p, k) == evaluator[p].units[delivered[k].unit].kind = "score"

\* The number of completed invocations of score units among the first k
\* that process p has made.
RECURSIVE NumCompleted(_, _)
NumCompleted(p, k) ==
    IF k = 0 THEN 0
    ELSE NumCompleted(p, k - 1) + (IF Completed(k) /\ OnScoreUnit(p, k) THEN 1 ELSE 0)

\* The texts of one kind that invocation k dumps.
TextsOf(kind, k) ==
    LET batch == delivered[k].batch
    IN  IF kind = "src" THEN batch.example.source_text.items
        ELSE IF kind = "ref" THEN batch.example.target_text.items
        ELSE [j \in 1 .. batch.n |-> Text("hyp", batch.n, j)]

\* The examples of the completed invocations among the first k made on the
\* score unit of a direction by process p.
RECURSIVE NumExamples(_, _, _)
NumExamples(p, direction, k) ==
    IF k = 0 THEN 0
    ELSE NumExamples(p, direction, k - 1) +
         (IF Completed(k) /\ OnScoreUnit(p, k)
                          /\ evaluator[p].units[delivered[k].unit].direction = direction
          THEN delivered[k].batch.n ELSE 0)

\* The texts of one kind of these invocations, in the order of the batches.
RECURSIVE ExpectedTexts(_, _, _, _)
ExpectedTexts(p, direction, kind, k) ==
    IF k = 0 THEN <<>>
    ELSE ExpectedTexts(p, direction, kind, k - 1) \o
         (IF Completed(k) /\ OnScoreUnit(p, k)
                          /\ evaluator[p].units[delivered[k].unit].direction = direction
          THEN TextsOf(kind, k) ELSE <<>>)

\* The lines of a text file: the line j is the text between the newlines
\* j - 1 and j (every text of the model is a single token).
NumLines(content) == Cardinality({j \in 1 .. Len(content) : content[j] = NL})

IsLinesOf(content, texts) ==
    /\ Len(content) = 2 * Len(texts)
    /\ \A j \in 1 .. Len(texts) : content[2 * j - 1] = texts[j] /\ content[2 * j] = NL

FilesOf(p) == {h.file : h \in {x \in handles : x.owner = p}}

\* C1: a process opens the src/ref/hyp files of a direction, and its score
\* unit has streams to write to, only if its tp rank is 0; a process of
\* another tp rank opens no file, its score units have no stream, and no file
\* holds a line its writer rank has not written; yet after the same batches
\* it has made the same generation calls and the same metric-bag updates as
\* the writer rank of its gang.
C1_OnlyWriterRankWrites ==
    /\ \A h \in handles : TpRank(h.owner) = 0
    /\ \A p \in active :
         Built(p) =>
           \A i \in 1 .. Len(evaluator[p].units) :
             LET unit == evaluator[p].units[i]
             IN  /\ unit.src_output_stream.open => TpRank(p) = 0 /\ unit.kind = "score"
                 /\ unit.ref_output_stream.open => TpRank(p) = 0 /\ unit.kind = "score"
                 /\ unit.hyp_output_stream.open => TpRank(p) = 0 /\ unit.kind = "score"
    /\ \A p \in active :
         TpRank(p) = 0 /\ pos[p] = 0 => \A f \in AllFiles : streams[f] = EmptyStream
    /\ \A p \in active : Built(p) => generated[p] = NumCompleted(p, pos[p])
    /\ \A p, q \in active :
         Built(p) /\ Built(q) /\ pos[p] = pos[q] =>
           /\ generated[p] = generated[q]
           /\ \A i \in 1 .. Len(evaluator[p].units) :
                evaluator[p].units[i].metric_bag.metrics = evaluator[q].units[i].metric_bag.metrics

\* A rank that is no writer has run a batch through generation, as the writer
\* rank of its gang has, and the writer's files hold lines.
C1_Witness ==
    \E p, w \in active :
        /\ TpRank(p) # 0 /\ TpRank(w) = 0
        /\ generated[p] >= 1 /\ generated[w] = generated[p] /\ pos[p] = pos[w]
        /\ \E f \in FilesOf(w) : streams[f].file # <<>>
        /\ \E i \in ScoreUnitIndices(p) :
             evaluator[p].units[i].metric_bag.metrics["bleu"].value >= 1

\* C3: when the creation of the output directory or the opening of an output
\* file fails, load_mt_evaluator raises a SetupError that names the failing
\* path, creates no evaluator, and no unit of the process is ever invoked.
C3_SetupErrorBeforeAnyBatch ==
    \A p \in Procs :
        /\ os_error[p] # NoFile => pc[p] = "failed"
        /\ pc[p] = "failed" =>
             /\ os_error[p] # NoFile
             /\ setup_error[p].raised
             /\ setup_error[p].path = os_error[p]
             /\ evaluator[p] = NoEvaluator
             /\ pos[p] = 0
             /\ generated[p] = 0
             /\ raised[p] = NoError
        /\ pc[p] # "failed" => ~setup_error[p].raised

\* The opening of a reference file has failed on one process while another
\* process of the gang has processed a batch.
C3_Witness ==
    \E p, q \in active :
        /\ pc[p] = "failed"
        /\ setup_error[p].path.kind = "ref"
        /\ pos[q] >= 1

MissingFields(example) ==
    {f \in {"source_text", "target_text"} : example[f].type = "absent"}

\* C4 as stated: a batch whose side-channel mapping lacks a required field is
\* rejected with an error that names a missing field.
C4_Original ==
    \A p \in active :
        pos[p] >= 1 /\ IsMapping(LastBatch(p).example)
                    /\ MissingFields(LastBatch(p).example) # {} =>
            /\ pc[p] = "aborted"
            /\ raised[p].field \in MissingFields(LastBatch(p).example)

\* C4, amended: a mapping without 'source_text' is rejected with the
\* missing-key error naming 'source_text'; a mapping without 'target_text' is
\* rejected with the missing-key error naming 'target_text' if its
\* 'source_text' is iterable, and with the wrong-type error naming
\* 'source_text' if its 'source_text' is present but not iterable.
C4_MissingFieldNamed ==
    \A p \in active :
        pos[p] >= 1 /\ IsMapping(LastBatch(p).example) =>
            LET example == LastBatch(p).example
            IN  /\ example.source_text.type = "absent" =>
                     pc[p] = "aborted" /\ raised[p] = ValueError("source_text")
                /\ IsIterable(example.source_text) /\ example.target_text.type = "absent" =>
                     pc[p] = "aborted" /\ raised[p] = ValueError("target_text")
                /\ example.source_text.type = "int" /\ example.target_text.type = "absent" =>
                     pc[p] = "aborted" /\ raised[p].field = "source_text"
                                       /\ raised[p].type = "TypeError"

\* A batch that lacks only 'target_text' has been rejected.
C4_Witness ==
    \E p \in active :
        /\ pc[p] = "aborted"
        /\ IsIterable(LastBatch(p).example.source_text)
        /\ LastBatch(p).example.target_text.type = "absent"
        /\ raised[p].field = "target_text"

HasMissing(example) ==
    \/ example.type = "None"
    \/ IsMapping(example) /\ MissingFields(example) # {}

HasWrongType(example) ==
    \/ example.type = "list"
    \/ IsMapping(example) /\ \E f \in {"source_text", "target_text"} : example[f].type = "int"

\* C5 as stated: a missing key or side-channel always yields the missing-key
\* error, a non-mapping side-channel or non-iterable field always the
\* wrong-container-type error.
C5_Original ==
    \A p \in active :
        pos[p] >= 1 =>
            /\ HasMissing(LastBatch(p).example) => raised[p].type = "ValueError"
            /\ HasWrongType(LastBatch(p).example) => raised[p].type = "TypeError"

\* The defect of what the error names: "missing", "wrong type" or "none".
DefectOf(example, field) ==
    IF field = "example"
    THEN IF example.type = "None" THEN "missing"
         ELSE IF ~IsMapping(example) THEN "wrong type" ELSE "none"
    ELSE IF example[field].type = "absent" THEN "missing"
         ELSE IF example[field].type = "int" THEN "wrong type" ELSE "none"

\* The first defect in the order side-channel, 'source_text', 'target_text'.
FirstDefect(example) ==
    IF DefectOf(example, "example") # "none" THEN <<"example", DefectOf(example, "example")>>
    ELSE IF DefectOf(example, "source_text") # "none"
    THEN <<"source_text", DefectOf(example, "source_text")>>
    ELSE <<"target_text", DefectOf(example, "target_text")>>

\* C5, amended: the two error kinds are distinct and the first defect, in the
\* order side-channel, 'source_text', 'target_text', decides which is raised:
\* the missing-key error if that defect is a missing side-channel or key, the
\* wrong-container-type error if it is a side-channel that is no mapping or a
\* field that is not iterable; a later defect of the other kind is not
\* reported.
C5_FirstDefectDecidesErrorKind ==
    \A p \in active :
        pos[p] >= 1 =>
            LET example == LastBatch(p).example
                first == FirstDefect(example)
            IN  /\ first[2] = "missing" =>
                     pc[p] = "aborted" /\ raised[p] = [type |-> "ValueError", field |-> first[1]]
                /\ first[2] = "wrong type" =>
                     pc[p] = "aborted" /\ raised[p] = [type |-> "TypeError", field |-> first[1]]
                /\ first[2] = "none" => raised[p] = NoError

\* A field that is not iterable has been rejected with the wrong-type error
\* and, in another run, a missing key with the missing-key error.
C5_Witness ==
    \E p \in active :
        /\ pc[p] = "aborted"
        /\ raised[p].type = "TypeError"
        /\ raised[p].field = "target_text"
        /\ LastBatch(p).example.target_text.type = "int"

WriterOf(rank) == CHOOSE p \in Procs : DpRank(p) = rank /\ TpRank(p) = 0

\* C2: no two processes hold a handle on the same path; the handles on
\* translations/{direction}/rank_{dp_rank}.{kind}.txt are held by the process
\* with that dp rank and tp rank 0 and by no other, and that process, once it
\* has built its evaluator, holds one on each kind of every direction.
C2_OneOwnerPerFile ==
    /\ \A h1, h2 \in handles : h1.file = h2.file => h1.owner = h2.owner
    /\ \A h \in handles : h.owner = WriterOf(h.file.rank)
    /\ \A p \in active :
         pc[p] = "ready" /\ TpRank(p) = 0 =>
           \A d \in 1 .. NumDirections, kind \in Kinds :
             [file |-> OutputFile(d, DpRank(p), kind), owner |-> p] \in handles

\* Two processes of different dp ranks have opened their files of the same
\* direction and kind.
C2_Witness ==
    \E h1, h2 \in handles :
        /\ h1.owner # h2.owner
        /\ h1.file.direction = h2.file.direction
        /\ h1.file.kind = h2.file.kind
        /\ pc[h1.owner] = "ready" /\ pc[h2.owner] = "ready"

\* The list load_mt_evaluator is to build: per direction, in the dataset's
\* order, the loss unit, then the score unit.
ExpectedNames ==
    [i \in 1 .. 2 * NumDirections |->
        <<IF i % 2 = 1 THEN "loss" ELSE "score", Directions[(i + 1) \div 2]>>]

UnitNames(p) == [i \in 1 .. Len(evaluator[p].units) |-> evaluator[p].units[i].display_name]

\* C7: every process that builds its evaluator, whatever its ranks, builds
\* the same list: per direction in the dataset's order a loss unit, then a
\* score unit, each unit paired with the reader of its direction (the loss
\* unit's batched by length, the score unit's by count), both lists of
\* length 2 x the number of directions.
C7_SameUnitOrderOnEveryProcess ==
    /\ \A p \in active :
         pc[p] = "ready" =>
           /\ Len(evaluator[p].units) = 2 * NumDirections
           /\ Len(evaluator[p].data_readers) = 2 * NumDirections
           /\ UnitNames(p) = ExpectedNames
           /\ \A i \in 1 .. Len(evaluator[p].units) :
                LET unit == evaluator[p].units[i]
                    options == evaluator[p].data_readers[i].options
                IN  /\ unit.kind = unit.display_name[1]
                    /\ options.direction = unit.direction
                    /\ unit.direction = unit.display_name[2]
                    /\ options.batching.type = (IF unit.kind = "loss" THEN "length" ELSE "static")
    /\ \A p, q \in active :
         pc[p] = "ready" /\ pc[q] = "ready" => UnitNames(p) = UnitNames(q)

\* A writer rank and a rank that writes nothing have both built their lists.
C7_Witness ==
    \E p, q \in active :
        /\ pc[p] = "ready" /\ pc[q] = "ready"
        /\ TpRank(p) = 0 /\ TpRank(q) # 0
        /\ Len(evaluator[q].units) = 2 * NumDirections

AllDone == \A m \in Members : rd_state[m] = "done"

MaxCount == CHOOSE c \in {rd_counts[m] : m \in Members} : \A m \in Members : rd_counts[m] <= c

MinCount == CHOOSE c \in {rd_counts[m] : m \in Members} : \A m \in Members : c <= rd_counts[m]

\* C8: a reader created by load_mt_evaluator, as any reader in the UNTIL_LAST
\* mode, has every member take exactly max(counts) steps; the members step
\* together, a member yields a no-op batch at each step past the end of its
\* shard, and the reader ends only when every shard is exhausted.
C8_UntilLastTakesMaxSteps ==
    rd_options \in MTReaderOptions \/ rd_options.sync_mode = "UNTIL_LAST" =>
        /\ \A m, n \in Members : rd_steps[m] = rd_steps[n]
        /\ \A m \in Members :
             /\ rd_steps[m] = rd_taken[m] + rd_noops[m]
             /\ rd_taken[m] <= rd_counts[m]
             /\ rd_noops[m] > 0 => rd_taken[m] = rd_counts[m]
             /\ rd_state[m] = "done" => AllDone
        /\ AllDone =>
             \A m \in Members :
                 /\ rd_steps[m] = MaxCount
                 /\ rd_taken[m] = rd_counts[m]
                 /\ rd_noops[m] = MaxCount - rd_counts[m]

\* A reader of the MT evaluator has run over shards of 3 and 5 batches: both
\* members took 5 steps, the shorter one yielding 2 no-op batches.
C8_Witness ==
    /\ rd_options \in MTReaderOptions
    /\ AllDone
    /\ \E m, n \in Members :
         /\ rd_counts[m] = 3 /\ rd_counts[n] = 5 /\ MaxCount = 5
         /\ rd_steps[m] = 5 /\ rd_steps[n] = 5
         /\ rd_noops[m] = 2 /\ rd_noops[n] = 0

\* C9: under UNTIL_FIRST every member takes exactly min(counts) steps: the
\* members step together, none yields a no-op batch, and the reader stops for
\* all of them at once, when the first shard is exhausted.
C9_UntilFirstTakesMinSteps ==
    rd_options.sync_mode = "UNTIL_FIRST" =>
        /\ \A m, n \in Members : rd_steps[m] = rd_steps[n]
        /\ \A m \in Members :
             /\ rd_noops[m] = 0
             /\ rd_steps[m] = rd_taken[m]
             /\ rd_steps[m] <= MinCount
             /\ rd_state[m] = "done" => AllDone
        /\ AllDone => \A m \in Members : rd_steps[m] = MinCount

\* An UNTIL_FIRST reader has run over shards of 3 and 5 batches and stopped
\* after 3 steps for both members.
C9_Witness ==
    /\ rd_options.sync_mode = "UNTIL_FIRST"
    /\ AllDone
    /\ \E m, n \in Members :
         /\ rd_counts[m] = 3 /\ rd_counts[n] = 5 /\ MinCount = 3
         /\ rd_steps[m] = 3 /\ rd_steps[n] = 3

\* The names of the scoring metrics.
ScoringMetrics == {"bleu", "chrf"}

\* C11 as stated: when the evaluator clears the non-persistent metrics, the
\* scoring metrics of a score unit's bag keep their accumulated values.
C11_Original ==
    mb_op.op = "clear" =>
        \A m \in MetricGang :
            IsScoreBag(mb_bag[m]) =>
                \A name \in ScoringMetrics :
                    mb_bag[m].metrics[name].value = mb_prev[m].metrics[name].value

\* C11, amended: the scoring unit registers bleu and chrf as not persistent;
\* when the evaluator clears the non-persistent metrics at a checkpoint, bleu
\* and chrf are reset to their initial value with the other metrics of the
\* bag, so that what is reported covers the batches since the last clear.
C11_ScoringMetricsAreCleared ==
    \A m \in MetricGang :
        IsScoreBag(mb_bag[m]) =>
            /\ \A name \in ScoringMetrics : ~mb_bag[m].metrics[name].persistent
            /\ mb_op.op = "clear" =>
                  \A name \in ScoringMetrics : mb_bag[m].metrics[name].value = 0
            /\ mb_op.op = "update" /\ mb_op.member = m =>
                  \A name \in ScoringMetrics :
                      mb_bag[m].metrics[name].value > mb_prev[m].metrics[name].value

\* A score unit's bag that had accumulated scores has been cleared.
C11_Witness ==
    /\ mb_op.op = "clear"
    /\ \E m \in MetricGang :
         /\ IsScoreBag(mb_bag[m])
         /\ mb_prev[m].metrics["bleu"].value >= 2
         /\ mb_prev[m].metrics["chrf"].value >= 2

BaseMetrics == {"num_batches", "num_elements"}

\* C13: the constructors of the units raise no duplicate-registration error
\* (the scoring unit's registers the distinct names bleu and chrf); a further
\* registration under a name the bag holds raises the error in the
\* registration itself and leaves the entries of the bag as they were, one
\* under a new name adds that entry alone; the error is raised by no other
\* operation, and a bag whose registration failed processes no batch.
C13_DuplicateRegistrationRaises ==
    \A m \in MetricGang :
        /\ mb_op = NoOp =>
              /\ mb_bag[m].error = NoMetricError
              /\ \/ DOMAIN mb_bag[m].metrics = BaseMetrics
                 \/ DOMAIN mb_bag[m].metrics = BaseMetrics \cup ScoringMetrics
        /\ mb_op.op = "register" =>
              IF mb_op.name \in DOMAIN mb_prev[m].metrics
              THEN /\ mb_bag[m].error = DuplicateMetricError(mb_op.name)
                   /\ mb_bag[m].metrics = mb_prev[m].metrics
              ELSE /\ mb_bag[m].error = NoMetricError
                   /\ DOMAIN mb_bag[m].metrics = DOMAIN mb_prev[m].metrics \cup {mb_op.name}
                   /\ \A name \in DOMAIN mb_prev[m].metrics :
                        mb_bag[m].metrics[name] = mb_prev[m].metrics[name]
        /\ mb_bag[m].error # NoMetricError => mb_op.op = "register" /\ mb_updates[m] = 0

\* A registration under the name bleu has failed on a score unit's bag, which
\* holds the entries it held.
C13_Witness ==
    /\ mb_op.op = "register"
    /\ mb_op.name = "bleu"
    /\ \E m \in MetricGang :
         /\ IsScoreBag(mb_prev[m])
         /\ mb_bag[m].error = DuplicateMetricError("bleu")

\* The batches of the reader: the emitted ones, then the one being filled.
AllBatches == IF bt_current = <<>> THEN bt_out ELSE Append(bt_out, bt_current)

\* The examples of a sequence of batches, in order.
RECURSIVE Flatten(_)
Flatten(batches) ==
    IF batches = <<>> THEN <<>>
    ELSE Flatten(SubSeq(batches, 1, Len(batches) - 1)) \o batches[Len(batches)]

\* C14: under LengthBatching(max_tokens), every batch satisfies batch size x
\* longest example <= max_tokens or holds exactly one example, and an example
\* longer than max_tokens that has been read is, whole, the only example of
\* exactly one batch.
C14_LengthBatchesWithinBudget ==
    bt_batching.type = "length" =>
        /\ \A i \in 1 .. Len(AllBatches) :
             /\ AllBatches[i] # <<>>
             /\ PaddedTokens(AllBatches[i]) <= bt_batching.size \/ Len(AllBatches[i]) = 1
        /\ \A k \in 1 .. bt_next - 1 :
             bt_input[k].len > bt_batching.size =>
                 /\ Cardinality({i \in 1 .. Len(AllBatches) :
                                    \E j \in 1 .. Len(AllBatches[i]) :
                                        AllBatches[i][j].id = bt_input[k].id}) = 1
                 /\ \E i \in 1 .. Len(AllBatches) : AllBatches[i] = <<bt_input[k]>>
        /\ bt_done => bt_current = <<>>

\* A shard with an example longer than the budget between shorter ones has
\* been batched to its end, one batch holding two examples.
C14_Witness ==
    /\ bt_batching.type = "length"
    /\ bt_done
    /\ \E k \in 2 .. Len(bt_input) - 1 : bt_input[k].len > bt_batching.size
    /\ \E i \in 1 .. Len(bt_out) : Len(bt_out[i]) >= 2

\* The examples the reader drops at the end of the data: the short last
\* window of StaticBatching under the drop policy.
NumDropped ==
    IF bt_batching.type = "static" /\ bt_drop THEN Len(bt_input) % bt_batching.size ELSE 0

\* C15: under either batching, the examples of the batches, in order, are
\* the examples read so far, each once; at the end of the data they are the
\* examples of the shard, but for the short last batch the drop policy
\* removes.
C15_BatchesPartitionTheInput ==
    /\ Flatten(AllBatches) = SubSeq(bt_input, 1, Len(Flatten(AllBatches)))
    /\ ~bt_done => Len(Flatten(AllBatches)) = bt_next - 1
    /\ bt_done => Len(Flatten(bt_out)) = Len(bt_input) - NumDropped /\ bt_current = <<>>
    /\ \A i \in 1 .. Len(bt_out) :
         /\ bt_out[i] # <<>>
         /\ bt_batching.type = "static" =>
               \/ Len(bt_out[i]) = bt_batching.size
               \/ i = Len(bt_out) /\ bt_done /\ ~bt_drop /\ Len(bt_out[i]) < bt_batching.size

\* A shard has been batched by length into several batches, one of them
\* closed by an example that did not fit.
C15_Witness ==
    /\ bt_batching.type = "length"
    /\ bt_done
    /\ Len(bt_out) >= 2
    /\ Len(bt_input) >= 3
    /\ \E i \in 1 .. Len(bt_out) : Len(bt_out[i]) >= 2

\* C16: an invocation that raises leaves the evaluator of the process, with
\* the metric bags of its units, the count of its generator calls and every
\* output stream as they were before the invocation.
C16_RejectedInvocationChangesNothing ==
    [][\A p \in Procs :
          pos'[p] = pos[p] + 1 /\ raised'[p] # NoError =>
              /\ evaluator'[p] = evaluator[p]
              /\ generated'[p] = generated[p]
              /\ streams' = streams]_vars

\* A writer rank whose score unit had processed a batch, with lines written
\* and scores accumulated, has had a batch without 'target_text' rejected.
C16_Witness ==
    \E p \in active :
        /\ TpRank(p) = 0
        /\ pc[p] = "aborted"
        /\ raised[p].field = "target_text"
        /\ generated[p] >= 1
        /\ \E f \in FilesOf(p) : streams[f].file # <<>>
        /\ \E i \in ScoreUnitIndices(p) :
             evaluator[p].units[i].metric_bag.metrics["bleu"].value >= 1

\* The seeds of the readers of process p, in the order of their creation.
ReaderSeeds(p) ==
    [k \in 1 .. Len(evaluator[p].data_readers) |-> evaluator[p].data_readers[k].options.seed]

\* C17: a process that runs load_mt_evaluator seeds the global RNG with the
\* configured seed s; once it has built its evaluator over D directions, its
\* k-th reader (k = 0 .. 2D - 1) has the seed s + 1 + k and the evaluator the
\* seed s + 1 + 2D, so that the reader seeds differ from one another, from s
\* and from the evaluator's seed, and every process has the same seeds.
C17_SeedsAreConsecutive ==
    /\ \A p \in active : pc[p] # "init" => rng_seed[p] = config.seed
    /\ \A p \in active :
         pc[p] = "ready" =>
           /\ Len(evaluator[p].data_readers) = 2 * NumDirections
           /\ \A k \in 0 .. 2 * NumDirections - 1 : ReaderSeeds(p)[k + 1] = config.seed + 1 + k
           /\ evaluator[p].seed = config.seed + 1 + 2 * NumDirections
           /\ \A j, k \in 1 .. 2 * NumDirections :
                j # k => ReaderSeeds(p)[j] # ReaderSeeds(p)[k]
           /\ \A k \in 1 .. 2 * NumDirections :
                ReaderSeeds(p)[k] \notin {config.seed, evaluator[p].seed}
    /\ \A p, q \in active :
         pc[p] = "ready" /\ pc[q] = "ready" =>
           /\ ReaderSeeds(p) = ReaderSeeds(q)
           /\ evaluator[p].seed = evaluator[q].seed
           /\ rng_seed[p] = rng_seed[q]

\* Two processes that differ in both ranks have built their evaluators from
\* a seed other than 0.
C17_Witness ==
    \E p, q \in active :
        /\ DpRank(p) # DpRank(q) /\ TpRank(p) # TpRank(q)
        /\ pc[p] = "ready" /\ pc[q] = "ready"
        /\ config.seed >= 1
        /\ ReaderSeeds(p)[2 * NumDirections] = config.seed + 2 * NumDirections

\* C18: setup_runtime_context is executed at most once, and every call of
\* setup_fairseq2 after the first, a re-entrant one included, returns the
\* process-wide context, the one the first call constructs.
C18_SetupOnceAndContextReturned ==
    /\ su_runs <= 1
    /\ \A i \in 1 .. Len(su_results) :
         su_results[i].call >= 2 =>
             su_results[i].outcome = "context" /\ su_results[i].context = 1

\* C19: start() on a running stopwatch raises InvalidOperationError and
\* leaves it running with the start time it had; reset() on a stopwatch that
\* is not running raises InvalidOperationError and leaves it not running; in
\* the other state neither raises.
C19_OutOfStateOperationsRejected ==
    sw_pc = "live" =>
        /\ sw_op = "start" =>
              IF is_running(sw_prev)
              THEN /\ sw_raised = "InvalidOperationError"
                   /\ is_running(sw_self)
                   /\ sw_self.start_time = sw_prev.start_time
              ELSE sw_raised = "none" /\ is_running(sw_self)
        /\ sw_op = "reset" =>
              IF ~is_running(sw_prev)
              THEN sw_raised = "InvalidOperationError" /\ ~is_running(sw_self)
              ELSE sw_raised = "none" /\ is_running(sw_self)

\* start() has been called, after the clock has advanced, on a stopwatch
\* that was running.
C19_Witness ==
    /\ sw_pc = "live"
    /\ sw_op = "start"
    /\ is_running(sw_prev)
    /\ sw_clock > sw_prev.start_time
    /\ sw_raised = "InvalidOperationError"

\* C20: is_running is true exactly when a start or __enter__ has succeeded
\* with no stop or __exit__ since; stop and __exit__ raise nothing and leave
\* the stopwatch not running, whatever its state; __enter__ on a running
\* stopwatch raises nothing and keeps its start time; get_elapsed_time on a
\* stopwatch that is not running returns 0.
C20_RunningIffStartedAndNotStopped ==
    sw_pc = "live" =>
        /\ is_running(sw_self) = sw_started
        /\ sw_op \in {"stop", "__exit__"} => sw_raised = "none" /\ ~is_running(sw_self)
        /\ sw_op = "__enter__" =>
              /\ sw_raised = "none"
              /\ is_running(sw_self)
              /\ is_running(sw_prev) => sw_self.start_time = sw_prev.start_time
        /\ sw_op = "get_elapsed_time" /\ ~is_running(sw_prev) =>
              sw_raised = "none" /\ sw_value = 0 /\ sw_self = sw_prev

\* __enter__ has been called, after the clock has advanced, on a stopwatch
\* that was running.
C20_Witness ==
    /\ sw_pc = "live"
    /\ sw_op = "__enter__"
    /\ is_running(sw_prev)
    /\ sw_clock > sw_prev.start_time

\* Loading or calling entry point k has failed: it is no valid extension
\* function, it has raised, or its own call of setup_fairseq2 has raised.
Failed(k) ==
    /\ su_invoked[k] >= 1
    /\ \/ su_behaviour[k] \in {"type_error", "exception"}
       \/ \E i \in 1 .. Len(su_results) :
             su_results[i].entry_point = k /\ su_results[i].outcome = "RuntimeError"

\* The ExtensionError results: the errors that have left run_extensions.
ExtensionErrors ==
    {i \in 1 .. Len(su_results) : su_results[i].outcome = "ExtensionError"}

\* The first call of setup_fairseq2, hence run_extensions, has ended.
ExtensionsDone == su_runs = 1 /\ su_pc = "idle"

\* C21: run_extensions loads and calls the entry points in their order, each
\* at most once. Without FAIRSEQ2_EXTENSION_TRACE a failure is logged, no
\* ExtensionError is raised, and when run_extensions ends every entry point
\* has been loaded and called exactly once. With the variable set nothing is
\* logged as a warning, and a failing entry point ends run_extensions with
\* the one ExtensionError, which carries that entry point, the earlier
\* entry points having run without failure and the later ones never run.
C21_ExtensionFailuresLoggedOrRaised ==
    /\ \A k \in EntryPoints : su_invoked[k] <= 1
    /\ \A j, k \in EntryPoints : j < k /\ su_invoked[k] = 1 => su_invoked[j] = 1
    /\ ~su_trace =>
         /\ ExtensionErrors = {}
         /\ su_logged = {k \in EntryPoints : Failed(k)}
         /\ ExtensionsDone =>
               /\ \A k \in EntryPoints : su_invoked[k] = 1
               /\ su_context = 1
    /\ su_trace =>
         /\ su_logged = {}
         /\ Cardinality(ExtensionErrors) <= 1
         /\ \A k \in EntryPoints :
              Failed(k) =>
                  /\ ExtensionsDone
                  /\ \E i \in ExtensionErrors : su_results[i].entry_point = k
                  /\ \A j \in EntryPoints : j < k => su_invoked[j] = 1 /\ ~Failed(j)
                  /\ \A j \in EntryPoints : j > k => su_invoked[j] = 0
         /\ \A i \in ExtensionErrors : Failed(su_results[i].entry_point)

\* Without the trace variable, the first entry point has failed and been
\* logged, the last one has run after it, and setup has completed.
C21_Witness ==
    /\ ~su_trace
    /\ su_behaviour[1] = "exception"
    /\ 1 \in su_logged
    /\ su_invoked[NumEntryPoints] = 1
    /\ ExtensionsDone
====
